---- MODULE Spec2Model ----
(***************************************************************************)
(* Model of the eClass MCP server: the session state (server.py), the CAS  *)
(* login protocol and logout (authentication.py), the course catalog       *)
(* reader (course_management.py) and the markup extractors                 *)
(* (html_parsing.py).                                                      *)
(*                                                                         *)
(* Strings are sequences of tokens.  "/" and "https://" are tokens of      *)
(* their own, so that startswith, rstrip('/') and lstrip('/') act on the   *)
(* ends of a sequence; a substring test `m in s` holds when a token of s   *)
(* contains m (Has).  Greek literals of the source are transliterated.     *)
(* The portal and the CAS server are the environment: every response is a  *)
(* nondeterministic choice from a finite set of responses.                 *)
(***************************************************************************)
EXTENDS Integers, Sequences, FiniteSets, TLC

VARIABLES
    env,             \* os.environ: ECLASS_URL, ECLASS_USERNAME, ECLASS_PASSWORD
    base_url,        \* SessionState.base_url
    login_form_url,  \* SessionState.login_form_url
    portfolio_url,   \* SessionState.portfolio_url
    logout_url,      \* SessionState.logout_url
    session,         \* SessionState.session: the requests.Session (identity, cookie jar)
    logged_in,       \* SessionState.logged_in
    username,        \* SessionState.username
    courses,         \* SessionState.courses
    pc,              \* position of the running handle_login / attempt_login
    sso_link,        \* attempt_login local
    execution,       \* attempt_login local
    action,          \* attempt_login local
    response,        \* the last response a handler received
    net,             \* the requests issued by the current (or last) operation
    ret,             \* what the last operation returned
    call             \* html_parsing applied on its own: the function, its input, its result

vars == <<env, base_url, login_form_url, portfolio_url, logout_url, session,
          logged_in, username, courses, pc, sso_link, execution, action,
          response, net, ret, call>>

urls == <<base_url, login_form_url, portfolio_url, logout_url>>
locals == <<sso_link, execution, action>>

----------------------------------------------------------------------------
(* Bounds *)

\* how many times reset() may replace the requests.Session
MaxResets == 2

----------------------------------------------------------------------------
(* Python values *)

\* None where a str is expected (a str is a sequence of tokens)
NoneStr == <<"None">>
\* None where an atom (username, password, execution token) is expected
None == "None"

\* Python truthiness of an optional str
Truthy(s) == s # NoneStr /\ s # <<>>
\* Python truthiness of an optional atom
TruthyAtom(a) == a # None /\ a # ""

\* the fixed literals of the source, transliterated where Greek
SSO_MARKER == "Eisodos me logariasmo EKPA"
EKPA == "EKPA"
POROI == "Poroi Pliroforikis EKPA"
NOT_AUTHENTIC == "The credentials you provided cannot be determined to be authentic"
MATHIMATA == "Mathimata"
SSO_HOST == "sso.uoa.gr"
PORTAL_HOST == "eclass.uoa.gr"

\* <<t, m>>: the token t contains the literal m as a proper substring
SubstrPairs ==
    { <<SSO_MARKER, EKPA>>, <<POROI, EKPA>>,
      <<"login_form.php", "login">>, <<"login.php", "login">>,
      <<"sso.uoa.gr.evil.example", SSO_HOST>>,
      <<"eclass.uoa.gr.evil.example", PORTAL_HOST>>,
      <<"courses", "course">>, <<"course.php", "course">>,
      <<"course-title", "course">>, <<"course-box", "course">>,
      <<"course-info", "course">>,
      <<"the credentials you provided cannot be determined to be authentic", "credentials">>,
      <<NOT_AUTHENTIC, "credentials">>,
      <<"failed to authenticate", "authenticate">>,
      <<"my portfolio", "portfolio">>,
      <<"https://", "http">>, <<"http://", "http">>, <<"httpdocs", "http">> }

\* m in t, for one token
Has(t, m) == t = m \/ <<t, m>> \in SubstrPairs

\* m in s, for a string s
In(m, s) == \E i \in 1..Len(s) : Has(s[i], m)

\* str.lower() of one token
LowerTok(t) ==
    CASE t = NOT_AUTHENTIC -> "the credentials you provided cannot be determined to be authentic"
      [] t = "Failed to Authenticate" -> "failed to authenticate"
      [] t = "My Portfolio" -> "my portfolio"
      [] t = "COURSES" -> "courses"
      [] OTHER -> t

\* str.lower()
Lower(s) == [i \in 1..Len(s) |-> LowerTok(s[i])]

RECURSIVE LStrip(_, _)
\* str.lstrip(c)
LStrip(s, c) == IF s # <<>> /\ Head(s) = c THEN LStrip(Tail(s), c) ELSE s

RECURSIVE RStrip(_, _)
\* str.rstrip(c)
RStrip(s, c) ==
    IF s # <<>> /\ s[Len(s)] = c THEN RStrip(SubSeq(s, 1, Len(s) - 1), c) ELSE s

\* str.strip(): whitespace is the token " "
Strip(s) == RStrip(LStrip(s, " "), " ")

\* str.startswith(('http://', 'https://'))
StartsWithScheme(s) == s # <<>> /\ Head(s) \in {"http://", "https://"}

\* str.startswith('/')
StartsWithSlash(s) == s # <<>> /\ Head(s) = "/"

\* str.startswith('http')
StartsWithHttp(s) == s # <<>> /\ Has(Head(s), "http")

----------------------------------------------------------------------------
(* HTML documents, as BeautifulSoup parses them *)

\* an <a>: its text and its href attribute (NoneStr when absent)
Anchor(text, href) == [text |-> text, href |-> href]
\* a <form>: its id and its action attribute (NoneStr when absent)
Form(id, act) == [id |-> id, action |-> act]
\* an element a course selector matches: its first descendant <a> if any,
\* its own href attribute and its own text
Elem(has_a, a, href, text) == [has_a |-> has_a, a |-> a, href |-> href, text |-> text]

NoInput == "NoInput"

\* a document: the words of its text nodes, its anchors and forms in
\* document order, the text of <div id="msg"> (NoneStr when there is none),
\* the value of <input name="execution"> (NoInput: no such input, None: no
\* value attribute) and the elements each course selector matches
Html(words, anchors, forms, msg, exec, groups) ==
    [words |-> words, anchors |-> anchors, forms |-> forms, msg |-> msg,
     execution_input |-> exec, groups |-> groups]

NoGroups == << <<>>, <<>>, <<>>, <<>> >>
EmptyHtml == Html({}, <<>>, <<>>, NoneStr, NoInput, NoGroups)

\* the class names the four selectors of extract_courses look for
GroupClass == <<"course-title", "lesson-title", "course-box", "course-info">>

Toks(s) == IF s = NoneStr THEN {} ELSE {s[i] : i \in 1..Len(s)}

\* the tokens of the raw text of a document (response.text)
Raw(doc) ==
    doc.words
    \cup UNION {Toks(doc.anchors[i].text) \cup Toks(doc.anchors[i].href) :
                    i \in 1..Len(doc.anchors)}
    \cup UNION {Toks(doc.forms[i].action) : i \in 1..Len(doc.forms)}
    \cup Toks(doc.msg)
    \cup {GroupClass[g] : g \in {h \in 1..4 : doc.groups[h] # <<>>}}
    \cup UNION {UNION {Toks(doc.groups[g][i].text) \cup Toks(doc.groups[g][i].href)
                       \cup (IF doc.groups[g][i].has_a
                             THEN Toks(doc.groups[g][i].a.text)
                                  \cup Toks(doc.groups[g][i].a.href)
                             ELSE {}) :
                       i \in 1..Len(doc.groups[g])} : g \in 1..4}

\* m in html_content
InText(m, doc) == \E w \in Raw(doc) : Has(w, m)
\* m in html_content.lower()
InLowerText(m, doc) == \E w \in Raw(doc) : Has(LowerTok(w), m)

----------------------------------------------------------------------------
(* html_parsing.py *)

\* the first of a set of indices into a list, 0 when the set is empty:
\* what a `for ... break` loop or soup.find stops at
First(I) == IF I = {} THEN 0 ELSE CHOOSE i \in I : \A j \in I : i <= j

\* the href of the first anchor whose text holds the marker
sso_anchor_href(doc) ==
    LET i == First({k \in 1..Len(doc.anchors) : In(EKPA, doc.anchors[k].text)})
    IN  IF i = 0 THEN NoneStr ELSE doc.anchors[i].href

\* the action of the first form whose action holds 'cas.php'
sso_form_action(doc) ==
    LET i == First({k \in 1..Len(doc.forms) :
                       Truthy(doc.forms[k].action) /\ In("cas.php", doc.forms[k].action)})
    IN  IF i = 0 THEN NoneStr ELSE doc.forms[i].action

\* a bug: the base is put in front of every link
absolute_sso_link_always_joins(link, base) ==
    IF StartsWithSlash(link) THEN base \o link ELSE base \o <<"/">> \o link

\* extract_sso_link: `# Make sure the URL is absolute`
absolute_sso_link(link, base) ==
    IF StartsWithScheme(link) THEN link
    ELSE IF StartsWithSlash(link) THEN base \o link
    ELSE base \o <<"/">> \o link

\* a bug: the cas.php form is looked for before the anchors
extract_sso_link_prefers_form(doc, base) ==
    LET f == sso_form_action(doc)
        link == IF Truthy(f) THEN f ELSE sso_anchor_href(doc)
    IN  IF ~Truthy(link) THEN NoneStr ELSE absolute_sso_link(link, base)

extract_sso_link(doc, base) ==
    LET a == sso_anchor_href(doc)
        link == IF Truthy(a) THEN a ELSE sso_form_action(doc)
    IN  IF ~Truthy(link) THEN NoneStr ELSE absolute_sso_link(link, base)

NO_EXECUTION == <<"Could not find execution parameter on SSO page">>
NO_FORM == <<"Could not find login form on SSO page">>

\* x or y
Or(x, y) == IF Truthy(x) THEN x ELSE y

\* soup.find('form', {'id': 'fm1'}) or soup.find('form'): 0 when there is none
cas_form_index(doc) ==
    LET i == First({k \in 1..Len(doc.forms) : doc.forms[k].id = "fm1"})
    IN  IF i # 0 THEN i ELSE IF doc.forms # <<>> THEN 1 ELSE 0

\* extract_cas_form_data: `# Make the action URL absolute`
absolute_cas_action(act) ==
    IF StartsWithScheme(act) THEN act
    ELSE IF StartsWithSlash(act) THEN <<"https://", SSO_HOST>> \o act
    ELSE <<"https://", SSO_HOST, "/">> \o act

\* the tuple (execution, action, error_text)
extract_cas_form_data(doc, current_url) ==
    LET error_text == IF doc.msg # NoneStr THEN Strip(doc.msg) ELSE NoneStr
        f == cas_form_index(doc)
        act == doc.forms[f].action
    IN  IF doc.execution_input = NoInput
        THEN [execution |-> None, action |-> NoneStr,
              error_text |-> Or(error_text, NO_EXECUTION)]
        ELSE IF f = 0
        THEN [execution |-> doc.execution_input, action |-> NoneStr,
              error_text |-> Or(error_text, NO_FORM)]
        ELSE [execution |-> doc.execution_input,
              action |-> IF ~Truthy(act) THEN current_url ELSE absolute_cas_action(act),
              error_text |-> error_text]

verify_login_success(doc) ==
    \/ InText(MATHIMATA, doc)
    \/ InLowerText("portfolio", doc)
    \/ InLowerText("course", doc)

\* course_url if course_url.startswith('http') else f"{base_url}/{course_url.lstrip('/')}"
course_url(href, base) ==
    IF StartsWithHttp(href) THEN href ELSE base \o <<"/">> \o LStrip(href, "/")

Course(name, url) == [name |-> name, url |-> url]

\* a bug: the matches of all four selectors are put together
course_elements_of_all_groups(doc) ==
    doc.groups[1] \o doc.groups[2] \o doc.groups[3] \o doc.groups[4]

\* soup.select(g1) or soup.select(g2) or soup.select(g3) or soup.select(g4)
course_elements(doc) ==
    LET g == First({k \in 1..4 : doc.groups[k] # <<>>})
    IN  IF g = 0 THEN <<>> ELSE doc.groups[g]

RECURSIVE courses_from_anchors(_, _)
courses_from_anchors(anchors, base) ==
    IF anchors = <<>> THEN <<>>
    ELSE LET link == Head(anchors)
             href == IF link.href = NoneStr THEN <<>> ELSE link.href
             name == Strip(link.text)
         IN  (IF (In("courses", href) \/ In("course.php", href)) /\ name # <<>>
              THEN <<Course(name, course_url(href, base))>>
              ELSE <<>>)
             \o courses_from_anchors(Tail(anchors), base)

RECURSIVE courses_from_elements(_, _)
courses_from_elements(elems, base) ==
    IF elems = <<>> THEN <<>>
    ELSE LET e == Head(elems)
             link == IF e.has_a THEN e.a ELSE [text |-> e.text, href |-> e.href]
         IN  (IF Truthy(link.href)
              THEN <<Course(Strip(link.text), course_url(link.href, base))>>
              ELSE <<>>)
             \o courses_from_elements(Tail(elems), base)

extract_courses(doc, base) ==
    IF course_elements(doc) = <<>>
    THEN courses_from_anchors(doc.anchors, base)
    ELSE courses_from_elements(course_elements(doc), base)

----------------------------------------------------------------------------
(* HTTP: what the portal and the CAS server may answer *)

\* a response with a status line; cookies are the Set-Cookie names it carries
Http(status, url, location, text, cookies) ==
    [kind |-> "http", status |-> status, url |-> url, location |-> location,
     text |-> text, cookies |-> cookies, error |-> "HTTPError"]

\* no response: session.get / session.post raised a requests.RequestException
TransportError ==
    [kind |-> "transport_error", status |-> 0, url |-> <<>>, location |-> <<>>,
     text |-> EmptyHtml, cookies |-> {}, error |-> "ConnectionError"]

\* no exchange took place
NoResponse ==
    [kind |-> "none", status |-> 0, url |-> <<>>, location |-> <<>>,
     text |-> EmptyHtml, cookies |-> {}, error |-> "None"]

\* session.get / session.post raised, or response.raise_for_status() does
Raises(r) == r.kind = "transport_error" \/ (r.status >= 400 /\ r.status < 600)

\* isinstance(e, class) for the exceptions a request can raise: ConnectionError
\* and HTTPError are requests.RequestException, hence Exception
IsInstance(e, class) ==
    \/ class = "RequestException" /\ e \in {"ConnectionError", "HTTPError"}
    \/ class \in {"Exception", "BaseException"}

\* the except clause of a try statement that catches e: its position in the
\* list of clauses, 0 when e propagates to the caller
Caught(clauses, e) == First({k \in 1..Len(clauses) : IsInstance(e, clauses[k])})

\* the cookie jar after the exchange
Exchange(sess, r) == [sess EXCEPT !.cookies = @ \cup r.cookies]

NoData == [username |-> None, password |-> None, execution |-> None]

\* an entry of the request log
Req(by, method, url, allow_redirects, data, r) ==
    [by |-> by, method |-> method, url |-> url,
     allow_redirects |-> allow_redirects, data |-> data,
     raised |-> IF allow_redirects THEN Raises(r) ELSE r.kind = "transport_error",
     status |-> r.status]

PORTAL == <<"https://", PORTAL_HOST>>
CAS_LOGIN == <<"https://", SSO_HOST, "/", "login">>

\* login_form.php as served
LoginPages ==
    { \* the EKPA button, a relative link
      Html({}, <<Anchor(<<"Home">>, <<"/">>),
                 Anchor(<<SSO_MARKER>>, <<"/", "main", "/", "cas.php">>)>>,
           <<>>, NoneStr, NoInput, NoGroups),
      \* the button and a cas.php form
      Html({}, <<Anchor(<<EKPA>>, PORTAL \o <<"/", "secure", "/", "cas.php">>)>>,
           <<Form("sso", <<"modules", "/", "auth", "/", "cas.php">>)>>,
           NoneStr, NoInput, NoGroups),
      \* a cas.php form only
      Html({}, <<Anchor(<<"Home">>, <<"/">>)>>,
           <<Form("search", NoneStr),
             Form("sso", <<"modules", "/", "auth", "/", "cas.php">>)>>,
           NoneStr, NoInput, NoGroups),
      \* the button without an href, and a cas.php form
      Html({}, <<Anchor(<<SSO_MARKER>>, NoneStr)>>,
           <<Form("sso", <<"/", "main", "/", "cas.php">>)>>,
           NoneStr, NoInput, NoGroups),
      \* neither
      Html({"Maintenance"}, <<Anchor(<<"Home">>, <<"/">>)>>, <<Form("search", NoneStr)>>,
           NoneStr, NoInput, NoGroups) }

\* the CAS login page as served
CasPages ==
    { \* the login form
      Html({}, <<>>, <<Form("fm1", <<"/", "login">>)>>, NoneStr, "e1s1", NoGroups),
      \* the login form under an error banner
      Html({}, <<>>, <<Form("fm1", <<"/", "login">>)>>,
           <<" ", "Failed to Authenticate", " ">>, "e1s1", NoGroups),
      \* the login form under a notice
      Html({}, <<>>, <<Form("fm1", <<"login">>)>>, <<"Service notice">>, "e1s1", NoGroups),
      \* no execution input
      Html({}, <<>>, <<Form("fm1", <<"/", "login">>)>>, NoneStr, NoInput, NoGroups),
      \* an execution input without a value
      Html({}, <<>>, <<Form("fm1", <<"/", "login">>)>>, NoneStr, None, NoGroups),
      \* no form
      Html({}, <<>>, <<>>, NoneStr, "e1s1", NoGroups),
      \* an error container on a page with neither token nor form
      Html({}, <<>>, <<>>, <<"Bad", " ", "credentials">>, NoInput, NoGroups),
      \* an execution input without a value on a page without a form
      Html({}, <<>>, <<>>, NoneStr, None, NoGroups),
      \* a form without an action, after a form that is not fm1
      Html({}, <<>>, <<Form("lang", <<"https://", "evil.example", "/", "collect">>),
                       Form("fm1", NoneStr)>>, NoneStr, "e1s1", NoGroups),
      \* a form posting elsewhere
      Html({}, <<>>, <<Form("login", <<"https://", "evil.example", "/", "collect">>)>>,
           NoneStr, "e1s1", NoGroups) }

\* what the credential POST is answered with
PostPages ==
    { \* the portal, after the service redirect
      Html({"Welcome"}, <<Anchor(<<"Home">>, <<"/">>)>>, <<>>, NoneStr, NoInput, NoGroups),
      \* the CAS form again, the rejection in the error container
      Html({}, <<>>, <<Form("fm1", <<"/", "login">>)>>, <<NOT_AUTHENTIC>>, "e1s2", NoGroups),
      \* the rejection outside the error container
      Html({NOT_AUTHENTIC}, <<>>, <<Form("fm1", <<"/", "login">>)>>, NoneStr, "e1s2",
           NoGroups),
      \* the CAS banner page, no form fields
      Html({POROI}, <<>>, <<>>, NoneStr, NoInput, NoGroups),
      \* the CAS banner page with an empty error container
      Html({POROI}, <<>>, <<Form("fm1", <<"/", "login">>)>>, <<" ">>, "e1s2", NoGroups) }

Intro == Anchor(<<"Intro">>, <<"/", "courses", "/", "101">>)
Algebra == Anchor(<<" ", "Algebra", " ">>, PORTAL \o <<"/", "courses", "/", "102">>)

\* portfolio.php as served
PortfolioPages ==
    { \* two courses under .course-title, other markup besides
      Html({MATHIMATA}, <<Intro, Algebra>>, <<>>, NoneStr, NoInput,
           << <<Elem(TRUE, Intro, NoneStr, <<"Intro">>),
                Elem(TRUE, Algebra, NoneStr, <<"Algebra">>)>>,
              <<Elem(FALSE, Intro, <<"courses", "/", "103">>, <<"Logic">>)>>,
              <<>>, <<>> >>),
      \* course links only
      Html({"My Portfolio"}, <<Anchor(<<"Home">>, <<"/">>), Intro, Algebra,
                               Anchor(<<" ">>, <<"course.php">>)>>,
           <<>>, NoneStr, NoInput, NoGroups),
      \* the portfolio of a user with no course
      Html({"My Portfolio"}, <<Anchor(<<"Home">>, <<"/">>)>>, <<>>, NoneStr, NoInput,
           NoGroups),
      \* a lesson title that is no link
      Html({}, <<>>, <<>>, NoneStr, NoInput,
           << <<>>, <<Elem(FALSE, Intro, NoneStr, <<"Logic">>)>>, <<>>, <<>> >>),
      \* not the portfolio: the login form
      Html({"Login"}, <<Anchor(<<SSO_MARKER>>, <<"/", "main", "/", "cas.php">>)>>, <<>>,
           NoneStr, NoInput, NoGroups) }

LoginFormResponses ==
    {TransportError}
    \cup {Http(500, <<>>, <<>>, EmptyHtml, {})}
    \cup {Http(200, <<>>, <<>>, d, {"PHPSESSID"}) : d \in LoginPages}

SsoUrls == { CAS_LOGIN,
             <<"https://", "evil.example", "/", "login">>,
             <<"https://", "sso.uoa.gr.evil.example", "/", "login">> }

SsoResponses ==
    {TransportError}
    \cup {Http(500, CAS_LOGIN, <<>>, EmptyHtml, {})}
    \cup {Http(200, CAS_LOGIN, <<>>, d, {}) : d \in CasPages}
    \cup {Http(200, u, <<>>, d, {}) : u \in SsoUrls \ {CAS_LOGIN},
              d \in {Html({}, <<>>, <<Form("fm1", <<"/", "login">>)>>, NoneStr, "e1s1",
                          NoGroups),
                     \* a form without an action: the POST goes to this URL
                     Html({}, <<>>, <<Form("fm1", NoneStr)>>, NoneStr, "e1s1", NoGroups)}}

PostUrls == { PORTAL \o <<"/", "main", "/", "portfolio.php">>,
              <<"https://", "eclass.example.edu", "/">>,
              CAS_LOGIN }

PostResponses ==
    {TransportError}
    \cup {Http(st, CAS_LOGIN, <<>>, d, {}) : st \in {401},
              d \in {Html({}, <<>>, <<Form("fm1", <<"/", "login">>)>>, <<NOT_AUTHENTIC>>,
                          "e1s2", NoGroups)}}
    \cup {Http(200, u, <<>>, d, c) : u \in PostUrls, d \in PostPages, c \in {{"TGC"}}}

PortfolioResponses ==
    {TransportError}
    \cup {Http(500, <<>>, <<>>, EmptyHtml, {})}
    \cup {Http(200, <<>>, <<>>, d, {}) : d \in PortfolioPages}

\* what the portfolio GET is answered with when redirects are not followed
ProbeResponses ==
    {TransportError}
    \cup {Http(302, <<>>, loc, EmptyHtml, {}) :
              loc \in { <<"/", "main", "/", "login_form.php">>, <<"/", "maintenance">>, <<>> }}
    \cup {Http(200, <<>>, <<>>, d, {}) : d \in PortfolioPages}
    \cup {Http(500, <<>>, <<>>, d, {}) :
              d \in {EmptyHtml, Html({"My Portfolio"}, <<>>, <<>>, NoneStr, NoInput, NoGroups)}}

LogoutResponses ==
    {TransportError}
    \cup {Http(st, <<>>, <<>>, EmptyHtml, c) : st \in {200, 500}, c \in {{}, {"PHPSESSID"}}}

EnvUrls == { NoneStr,
             <<"https://", PORTAL_HOST, "/">>,
             <<"https://", "eclass.example.edu", "/", "/">> }

EnvCredentials == { <<"alice", "pw">>, <<None, "pw">>, <<"alice", "">> }

----------------------------------------------------------------------------
(* What an operation returns.  msg: the message of the result tuple;        *)
(* user: the username perform_logout returns; valid: the value of           *)
(* is_session_valid when the operation called it; courses: the list         *)
(* get_courses returns (has_courses FALSE: None); text: the TextContent the *)
(* tool handler answers with.                                               *)

Ret(op, outcome, ok, msg, text) ==
    [op |-> op, outcome |-> outcome, ok |-> ok, msg |-> msg, user |-> None,
     valid |-> FALSE, has_courses |-> FALSE, courses |-> <<>>, text |-> text]

NoRet == Ret("none", "none", FALSE, NoneStr, <<>>)

\* f"{e}" of an atom: None prints as "None"
Fmt(a) == <<a>>

\* a bug: the failure text names the credentials that were tried
format_login_response_echoes(success, message, user) ==
    IF success
    THEN <<"Login successful! You are now logged in as ">> \o Fmt(user) \o <<".">>
    ELSE <<"Error: ">> \o message \o <<" (">> \o Fmt(env.ECLASS_USERNAME) \o <<"/">>
         \o Fmt(env.ECLASS_PASSWORD) \o <<")">>

format_login_response(success, message, user) ==
    IF success
    THEN <<"Login successful! You are now logged in as ">> \o Fmt(user) \o <<".">>
    ELSE <<"Error: ">> \o message

format_logout_response(success, username_or_error) ==
    IF success
    THEN IF Truthy(username_or_error)
         THEN <<"Successfully logged out user ">> \o username_or_error \o <<".">>
         ELSE <<"Not logged in, nothing to do.">>
    ELSE <<"Error during logout: ">> \o username_or_error

RECURSIVE format_course_list_from(_, _)
format_course_list_from(cs, i) ==
    IF cs = <<>> THEN <<>>
    ELSE <<ToString(i), ". ">> \o Head(cs).name
         \o (IF Tail(cs) = <<>> THEN <<>> ELSE <<"\n">>)
         \o format_course_list_from(Tail(cs), i + 1)

format_course_list(cs) == format_course_list_from(cs, 1)

format_courses_response(success, message, cs) ==
    IF ~success THEN <<"Error: ">> \o message
    ELSE IF Truthy(message) THEN message
    ELSE <<"Found ", ToString(Len(cs)), " courses:\n\n">> \o format_course_list(cs)

----------------------------------------------------------------------------
(* server.py: SessionState *)

\* SessionState.__init__
\* a bug: the trailing slashes are kept
normalize_base_url_keeps_slash(url) == url

\* SessionState.__init__: `self.base_url = base_url.rstrip('/')`
normalize_base_url(url) == RStrip(url, "/")

\* no parsing function has been applied on its own
NoCall ==
    [fn |-> "none", target |-> "none", doc |-> EmptyHtml, base |-> <<>>, url |-> <<>>,
     link |-> <<>>, out_link |-> NoneStr, out_courses |-> <<>>,
     out_cas |-> [execution |-> None, action |-> NoneStr, error_text |-> NoneStr],
     again |-> NoneStr]

\* the SessionState object after __init__
Constructed ==
    /\ env \in {[ECLASS_URL |-> u, ECLASS_USERNAME |-> c[1], ECLASS_PASSWORD |-> c[2]] :
                    u \in EnvUrls, c \in EnvCredentials}
    /\ base_url = normalize_base_url(IF Truthy(env.ECLASS_URL) THEN env.ECLASS_URL
                                      ELSE PORTAL)
    /\ login_form_url = base_url \o <<"/", "main", "/", "login_form.php">>
    /\ portfolio_url = base_url \o <<"/", "main", "/", "portfolio.php">>
    /\ logout_url = base_url \o <<"/", "index.php?logout=yes">>
    /\ session = [id |-> 0, cookies |-> {}]
    /\ logged_in = FALSE
    /\ username = None
    /\ courses = <<>>
    /\ pc = "idle"
    /\ sso_link = NoneStr
    /\ execution = None
    /\ action = NoneStr
    /\ response = NoResponse
    /\ net = <<>>
    /\ ret = NoRet

Init == Constructed /\ call = NoCall

\* the mutable fields of the SessionState object
Self == [session |-> session, logged_in |-> logged_in, username |-> username,
         courses |-> courses]

\* the SessionState object becomes st
Becomes(st) ==
    /\ session' = st.session
    /\ logged_in' = st.logged_in
    /\ username' = st.username
    /\ courses' = st.courses

\* session.get / session.post answered by r: the cookie jar takes its cookies
exchange(st, r) == [st EXCEPT !.session = Exchange(st.session, r)]

\* a bug: the check of logged_in is left out, the probe is always sent
returns_without_probe_never(st) == FALSE

\* is_session_valid: `if not self.logged_in: return False`
returns_without_probe(st) == ~st.logged_in

\* is_session_valid: redirected to the login page
redirected_to_login(r) == r.status = 302 /\ In("login", r.location)

\* a bug: status 200 is taken for access, whatever the page
portfolio_accessed_any_200(r) == r.status = 200

\* is_session_valid: successful access to the portfolio page
portfolio_accessed(r) == r.status = 200 /\ verify_login_success(r.text)

\* a bug: an invalid session also loses its user
invalidate_forgets_user(st) == [st EXCEPT !.logged_in = FALSE, !.username = None]

\* a bug: False is returned and the flag is left as it was
invalidate_keeps_flag(st) == st

\* is_session_valid: `self.logged_in = False`
invalidate(st) == [st EXCEPT !.logged_in = FALSE]

\* is_session_valid: the bare `except:`
is_session_valid_except == <<"BaseException">>

\* SessionState.is_session_valid on the object st, its GET answered by r:
\* the value returned, the object afterwards, the requests issued, and
\* whether an exception went up to the caller instead of a value
is_session_valid(st, r) ==
    LET probe == <<Req("is_session_valid", "GET", portfolio_url, FALSE, NoData, r)>>
    IN  IF returns_without_probe(st)
        THEN [valid |-> FALSE, state |-> st, net |-> <<>>, response |-> NoResponse,
              raised |-> FALSE]
        ELSE IF r.kind = "transport_error"
        THEN IF Caught(is_session_valid_except, r.error) = 0
             THEN [valid |-> FALSE, state |-> st, net |-> probe, response |-> r,
                   raised |-> TRUE]
             ELSE [valid |-> FALSE, state |-> invalidate(st), net |-> probe,
                   response |-> r, raised |-> FALSE]
        ELSE IF redirected_to_login(r)
        THEN [valid |-> FALSE, state |-> invalidate(exchange(st, r)), net |-> probe,
              response |-> r, raised |-> FALSE]
        ELSE IF portfolio_accessed(r)
        THEN [valid |-> TRUE, state |-> exchange(st, r), net |-> probe, response |-> r,
              raised |-> FALSE]
        ELSE [valid |-> FALSE, state |-> invalidate(exchange(st, r)), net |-> probe,
              response |-> r, raised |-> FALSE]

\* a bug: the requests are awaited, so a handler that waits for an answer
\* lets the event loop run another handler
yields_to_event_loop_at_requests(at) == at # "idle"

\* the tool handlers are coroutines on one event loop and hold no await that
\* suspends them: requests blocks the loop until the answer is there
yields_to_event_loop(at) == FALSE

\* the event loop can run a handler: none is running, or the one that is
\* running is suspended
CanStart == pc = "idle" \/ yields_to_event_loop(pc)

\* the answers a validity check of st can meet
Probes(st) == IF returns_without_probe(st) THEN {NoResponse} ELSE ProbeResponses

\* a direct call of session_state.is_session_valid()
IsSessionValid ==
    /\ pc = "idle"
    /\ \E r \in Probes(Self) :
        LET c == is_session_valid(Self, r)
        IN  /\ Becomes(c.state)
            /\ response' = c.response
            /\ net' = c.net
            /\ ret' = [Ret("is_session_valid",
                           IF c.raised THEN "raised"
                           ELSE IF c.valid THEN "valid" ELSE "invalid",
                           c.valid, NoneStr, <<>>) EXCEPT !.valid = c.valid]
    /\ UNCHANGED <<call, env, urls, pc, locals>>

\* a bug: reset leaves the course list in place
reset_keeps_courses(st) ==
    [session |-> [id |-> st.session.id + 1, cookies |-> {}], logged_in |-> FALSE,
     username |-> None, courses |-> st.courses]

\* SessionState.reset
reset(st) ==
    [session |-> [id |-> st.session.id + 1, cookies |-> {}], logged_in |-> FALSE,
     username |-> None, courses |-> <<>>]

\* a direct call of session_state.reset()
Reset ==
    /\ pc = "idle"
    /\ session.id < MaxResets
    /\ Becomes(reset(Self))
    /\ response' = NoResponse
    /\ net' = <<>>
    /\ ret' = Ret("reset", "done", TRUE, NoneStr, <<>>)
    /\ UNCHANGED <<call, env, urls, pc, locals>>

----------------------------------------------------------------------------
(* authentication.py: perform_logout, behind handle_logout *)

\* a bug: the early return is left out, logout always calls the portal
already_logged_out_ignored(st) == FALSE

\* perform_logout: `if not session_state.logged_in: return True, None`
already_logged_out(st) == ~st.logged_in

\* a bug: the state is reset before the response is checked
logout_failed_resets(st, r) == reset(exchange(st, r))

\* perform_logout: the object after the `except` branch
logout_failed(st, r) == exchange(st, r)

\* a bug: the try statement has no except clause
perform_logout_without_except == <<>>

\* perform_logout: `except Exception as e`
perform_logout_except == <<"Exception">>

\* perform_logout on st, its GET answered by r
perform_logout(st, r) ==
    LET get == <<Req("perform_logout", "GET", logout_url, TRUE, NoData, r)>>
    IN  IF already_logged_out(st)
        THEN [success |-> TRUE, user |-> None, msg |-> NoneStr, state |-> st,
              net |-> <<>>, response |-> NoResponse, outcome |-> "not_logged_in"]
        ELSE IF Raises(r)
        THEN [success |-> FALSE, user |-> None,
              msg |-> <<"Error during logout: ", r.error>>,
              state |-> logout_failed(st, r), net |-> get, response |-> r,
              outcome |-> IF Caught(perform_logout_except, r.error) = 0 THEN "raised"
                          ELSE "error"]
        ELSE [success |-> TRUE, user |-> st.username, msg |-> NoneStr,
              state |-> reset(exchange(st, r)), net |-> get, response |-> r,
              outcome |-> "logged_out"]

\* handle_logout
HandleLogout ==
    /\ CanStart
    /\ already_logged_out(Self) \/ session.id < MaxResets
    /\ \E r \in IF already_logged_out(Self) THEN {NoResponse} ELSE LogoutResponses :
        LET o == perform_logout(Self, r)
            username_or_error == IF ~o.success THEN o.msg
                                 ELSE IF o.user = None THEN NoneStr ELSE <<o.user>>
        IN  /\ Becomes(o.state)
            /\ response' = o.response
            /\ net' = o.net
            /\ ret' = [Ret("logout", o.outcome, o.success, o.msg,
                           format_logout_response(o.success, username_or_error))
                       EXCEPT !.user = o.user]
    /\ UNCHANGED <<call, env, urls, pc, locals>>

\* a bug: the validity check is asked also when nobody is logged in
reports_not_logged_in_never(st) == FALSE

\* format_authstatus_response: `if not session_state.logged_in`
reports_not_logged_in(st) == ~st.logged_in

\* format_authstatus_response on st, the validity check answered by r
format_authstatus_response(st, r) ==
    LET c == is_session_valid(st, r)
    IN  IF reports_not_logged_in(st)
        THEN [text |-> <<"Status: Not logged in">>, state |-> st, net |-> <<>>,
              response |-> NoResponse, valid |-> FALSE, outcome |-> "not_logged_in"]
        ELSE IF c.valid
        THEN [text |-> <<"Status: Logged in as ">> \o Fmt(c.state.username)
                       \o <<"\nCourses: ", ToString(Len(c.state.courses)), " enrolled">>,
              state |-> c.state, net |-> c.net, response |-> c.response,
              valid |-> TRUE, outcome |-> "logged_in"]
        ELSE [text |-> <<"Status: Session expired. Please log in again.">>,
              state |-> c.state, net |-> c.net, response |-> c.response,
              valid |-> FALSE, outcome |-> "session_expired"]

\* handle_authstatus
HandleAuthstatus ==
    /\ CanStart
    /\ \E r \in Probes(Self) :
        LET o == format_authstatus_response(Self, r)
        IN  /\ Becomes(o.state)
            /\ response' = o.response
            /\ net' = o.net
            /\ ret' = [Ret("authstatus", o.outcome, TRUE, NoneStr, o.text)
                       EXCEPT !.valid = o.valid]
    /\ UNCHANGED <<call, env, urls, pc, locals>>

----------------------------------------------------------------------------
(* course_management.py: get_courses, behind handle_get_courses *)

NOT_LOGGED_IN == <<"Not logged in. Please log in first using the login tool.">>
SESSION_EXPIRED == <<"Session expired. Please log in again.">>
NO_COURSES == <<"No courses found. You may not be enrolled in any courses.">>

\* a bug: the check of logged_in is left out
needs_login_never(st) == FALSE

\* a bug: a stored user is taken for a login
needs_login_unless_user(st) == ~st.logged_in /\ st.username = None

\* get_courses: `if not session_state.logged_in`
needs_login(st) == ~st.logged_in

\* a bug: the list is stored only when it is not empty
store_courses_unless_empty(st, cs) == IF cs = <<>> THEN st ELSE [st EXCEPT !.courses = cs]

\* get_courses: `session_state.courses = courses`
store_courses(st, cs) == [st EXCEPT !.courses = cs]

\* a bug: a failed fetch drops the courses stored before
fetch_failed_clears_courses(st, r) == [exchange(st, r) EXCEPT !.courses = <<>>]

\* get_courses: the object after an `except` branch
fetch_failed(st, r) == exchange(st, r)

\* get_courses: `except requests.RequestException as e`, `except Exception as e`
get_courses_except == <<"RequestException", "Exception">>

\* get_courses on st: r1 answers the validity check, r2 the portfolio GET
get_courses(st, r1, r2) ==
    LET c == is_session_valid(st, r1)
        get == <<Req("get_courses", "GET", portfolio_url, TRUE, NoData, r2)>>
        cs == extract_courses(r2.text, base_url)
    IN  IF needs_login(st)
        THEN [success |-> FALSE, msg |-> NOT_LOGGED_IN, has_courses |-> FALSE,
              courses |-> <<>>, state |-> st, net |-> <<>>, response |-> NoResponse,
              valid |-> FALSE, outcome |-> "not_logged_in"]
        ELSE IF ~c.valid
        THEN [success |-> FALSE, msg |-> SESSION_EXPIRED, has_courses |-> FALSE,
              courses |-> <<>>, state |-> c.state, net |-> c.net,
              response |-> c.response, valid |-> FALSE, outcome |-> "session_expired"]
        ELSE IF Raises(r2)
        THEN [success |-> FALSE,
              msg |-> IF Caught(get_courses_except, r2.error) = 1
                      THEN <<"Network error retrieving courses: ", r2.error>>
                      ELSE <<"Error retrieving courses: ", r2.error>>,
              has_courses |-> FALSE, courses |-> <<>>,
              state |-> fetch_failed(c.state, r2), net |-> c.net \o get,
              response |-> r2, valid |-> TRUE,
              outcome |-> CASE Caught(get_courses_except, r2.error) = 1 -> "network_error"
                            [] Caught(get_courses_except, r2.error) = 2 -> "error"
                            [] OTHER -> "raised"]
        ELSE [success |-> TRUE, msg |-> IF cs = <<>> THEN NO_COURSES ELSE NoneStr,
              has_courses |-> TRUE, courses |-> IF cs = <<>> THEN <<>> ELSE cs,
              state |-> store_courses(exchange(c.state, r2), cs), net |-> c.net \o get,
              response |-> r2, valid |-> TRUE,
              outcome |-> IF cs = <<>> THEN "no_courses" ELSE "courses"]

\* handle_get_courses
HandleGetCourses ==
    /\ CanStart
    /\ \E r1 \in Probes(Self) :
        \E r2 \in IF is_session_valid(Self, r1).valid THEN PortfolioResponses
                  ELSE {NoResponse} :
            LET o == get_courses(Self, r1, r2)
            IN  /\ Becomes(o.state)
                /\ response' = o.response
                /\ net' = o.net
                /\ ret' = [Ret("get_courses", o.outcome, o.success, o.msg,
                               format_courses_response(o.success, o.msg, o.courses))
                           EXCEPT !.valid = o.valid, !.has_courses = o.has_courses,
                                  !.courses = o.courses]
    /\ UNCHANGED <<call, env, urls, pc, locals>>

----------------------------------------------------------------------------
(* server.py: handle_login; authentication.py: attempt_login, one action   *)
(* for each request it issues and the checks that follow the response      *)

MISSING_CREDENTIALS ==
    <<"Error: Username and password must be provided in the .env file. Please set ECLASS_USERNAME and ECLASS_PASSWORD in your .env file.">>

\* attempt_login returns (success, message): handle_login answers
LoginReturns(outcome, success, message) ==
    /\ pc' = "idle"
    /\ sso_link' = NoneStr
    /\ execution' = None
    /\ action' = NoneStr
    /\ ret' = Ret("attempt_login", outcome, success, message,
                  format_login_response(success, message,
                                        IF success THEN env.ECLASS_USERNAME ELSE None))

\* attempt_login: `except requests.RequestException as e`, `except Exception as e`
attempt_login_except == <<"RequestException", "Exception">>

\* a request of attempt_login raised: the except clause that catches it answers
NetworkError(r) ==
    CASE Caught(attempt_login_except, r.error) = 1 ->
            LoginReturns("network_error", FALSE,
                         <<"Network error during login process: ", r.error>>)
      [] Caught(attempt_login_except, r.error) = 2 ->
            LoginReturns("error", FALSE, <<"Error during login process: ", r.error>>)
      [] OTHER -> LoginReturns("raised", FALSE, <<r.error>>)

\* a bug: a login is attempted whatever the state of the session
already_logged_in_never(st, valid) == FALSE

\* handle_login: `if session_state.logged_in and session_state.is_session_valid()`
already_logged_in(st, valid) == st.logged_in /\ valid

\* handle_login up to the call of attempt_login: r1 and r2 answer the two
\* validity checks
HandleLogin ==
    /\ CanStart
    /\ ~logged_in \/ session.id < MaxResets
    /\ \E r1 \in Probes(Self) :
        LET c1 == is_session_valid(Self, r1)
        IN  IF already_logged_in(Self, c1.valid)
            THEN /\ Becomes(c1.state)
                 /\ response' = c1.response
                 /\ net' = c1.net
                 /\ ret' = [Ret("handle_login", "already_logged_in", TRUE, NoneStr,
                                <<"Already logged in as ">> \o Fmt(c1.state.username))
                            EXCEPT !.valid = TRUE]
                 /\ UNCHANGED <<pc, locals>>
            ELSE \E r2 \in Probes(c1.state) :
                LET c2 == is_session_valid(c1.state, r2)
                    st == IF c1.state.logged_in /\ ~c2.valid THEN reset(c2.state)
                          ELSE c2.state
                IN  /\ Becomes(st)
                    /\ response' = IF c2.net = <<>> THEN c1.response ELSE c2.response
                    /\ net' = c1.net \o c2.net
                    /\ IF ~TruthyAtom(env.ECLASS_USERNAME) \/ ~TruthyAtom(env.ECLASS_PASSWORD)
                       THEN /\ ret' = Ret("handle_login", "missing_credentials", FALSE,
                                          NoneStr, MISSING_CREDENTIALS)
                            /\ UNCHANGED <<pc, locals>>
                       ELSE /\ ret' = Ret("attempt_login", "running", FALSE, NoneStr, <<>>)
                            /\ pc' = "get_login_form"
                            /\ UNCHANGED locals
    /\ UNCHANGED <<call, env, urls>>

\* the POST body of attempt_login
login_data == [username |-> env.ECLASS_USERNAME, password |-> env.ECLASS_PASSWORD,
               execution |-> execution]

\* attempt_login: the SSO page passes the host check
on_sso_host(r) == In(SSO_HOST, r.url)

\* a bug: the keywords are looked for without lowering the text
cas_reports_error_case_sensitive(error_text) ==
    Truthy(error_text)
    /\ (In("authenticate", error_text) \/ In("credentials", error_text))

\* attempt_login: the CAS page reports an authentication problem
cas_reports_error(error_text) ==
    Truthy(error_text)
    /\ (In("authenticate", Lower(error_text)) \/ In("credentials", Lower(error_text)))

\* a bug: the answer to the POST is not examined
post_accepted_always(r) == TRUE

\* attempt_login: neither failure marker is in the answer to the POST
post_accepted(r) == ~InText(POROI, r.text) /\ ~InText(NOT_AUTHENTIC, r.text)

\* attempt_login: the POST ended on the portal
redirected_to_portal(r) == In(PORTAL_HOST, r.url)

\* a bug: logged_in is set as soon as a response arrives
login_in_progress_marks(st, r) == [exchange(st, r) EXCEPT !.logged_in = TRUE]

\* a bug: an attempt under way drops the stored course list
login_in_progress_drops_courses(st, r) == [exchange(st, r) EXCEPT !.courses = <<>>]

\* attempt_login: the object while the protocol is under way
login_in_progress(st, r) == exchange(st, r)

\* a bug: the flag is set and the user is not recorded
login_succeeded_without_user(st, user) == [st EXCEPT !.logged_in = TRUE]

\* attempt_login: `logged_in = True; username = username`
login_succeeded(st, user) == [st EXCEPT !.logged_in = TRUE, !.username = user]

\* Step 1: GET the login form; Step 2: find the SSO link
LoginGetForm ==
    /\ pc = "get_login_form"
    /\ \E r \in LoginFormResponses :
        LET link == extract_sso_link(r.text, base_url)
        IN  /\ response' = r
            /\ net' = net \o <<Req("attempt_login", "GET", login_form_url, TRUE, NoData, r)>>
            /\ Becomes(login_in_progress(Self, r))
            /\ IF Raises(r) THEN NetworkError(r)
               ELSE IF ~Truthy(link)
               THEN LoginReturns("sso_link_missing", FALSE,
                                 <<"Could not find SSO login link on the login page">>)
               ELSE /\ sso_link' = link
                    /\ pc' = "follow_sso"
                    /\ UNCHANGED <<execution, action, ret>>
    /\ UNCHANGED <<call, env, urls>>

\* follow the SSO link; Step 3: host check and the CAS form
LoginFollowSso ==
    /\ pc = "follow_sso"
    /\ \E r \in SsoResponses :
        LET cas == extract_cas_form_data(r.text, r.url)
        IN  /\ response' = r
            /\ net' = net \o <<Req("attempt_login", "GET", sso_link, TRUE, NoData, r)>>
            /\ Becomes(login_in_progress(Self, r))
            /\ IF Raises(r) THEN NetworkError(r)
               ELSE IF ~on_sso_host(r)
               THEN LoginReturns("unexpected_redirect", FALSE,
                                 <<"Unexpected redirect to ">> \o r.url)
               ELSE IF cas_reports_error(cas.error_text)
               THEN LoginReturns("cas_error", FALSE,
                                 <<"Authentication error: ">> \o cas.error_text)
               ELSE IF ~TruthyAtom(cas.execution)
               THEN LoginReturns("token_missing", FALSE, NO_EXECUTION)
               ELSE IF ~Truthy(cas.action)
               THEN LoginReturns("form_missing", FALSE, NO_FORM)
               ELSE /\ execution' = cas.execution
                    /\ action' = cas.action
                    /\ pc' = "submit"
                    /\ UNCHANGED <<sso_link, ret>>
    /\ UNCHANGED <<call, env, urls>>

\* submit the login form; the failure markers; Step 4: the redirect
LoginSubmit ==
    /\ pc = "submit"
    /\ \E r \in PostResponses :
        LET cas == extract_cas_form_data(r.text, r.url)
        IN  /\ response' = r
            /\ net' = net \o <<Req("attempt_login", "POST", action, TRUE, login_data, r)>>
            /\ Becomes(login_in_progress(Self, r))
            /\ IF Raises(r) THEN NetworkError(r)
               ELSE IF ~post_accepted(r)
               THEN IF Truthy(cas.error_text)
                    THEN LoginReturns("authentication_error", FALSE,
                                      <<"Authentication error: ">> \o cas.error_text)
                    ELSE LoginReturns("invalid_credentials", FALSE,
                                      <<"Authentication failed: Invalid credentials">>)
               ELSE IF ~redirected_to_portal(r)
               THEN LoginReturns("unexpected_redirect_after_login", FALSE,
                                 <<"Unexpected redirect after login: ">> \o r.url)
               ELSE /\ pc' = "get_portfolio"
                    /\ UNCHANGED <<locals, ret>>
    /\ UNCHANGED <<call, env, urls>>

\* GET the portfolio page and verify it
LoginVerify ==
    /\ pc = "get_portfolio"
    /\ \E r \in PortfolioResponses :
        /\ response' = r
        /\ net' = net \o <<Req("attempt_login", "GET", portfolio_url, TRUE, NoData, r)>>
        /\ IF Raises(r)
           THEN /\ Becomes(login_in_progress(Self, r))
                /\ NetworkError(r)
           ELSE IF verify_login_success(r.text)
           THEN /\ Becomes(login_succeeded(exchange(Self, r), env.ECLASS_USERNAME))
                /\ LoginReturns("success", TRUE, NoneStr)
           ELSE /\ Becomes(login_in_progress(Self, r))
                /\ LoginReturns("portfolio_not_accessible", FALSE,
                                <<"Could not access portfolio page after login">>)
    /\ UNCHANGED <<call, env, urls>>

----------------------------------------------------------------------------

Next ==
    \/ HandleLogin
    \/ LoginGetForm
    \/ LoginFollowSso
    \/ LoginSubmit
    \/ LoginVerify
    \/ HandleGetCourses
    \/ HandleLogout
    \/ HandleAuthstatus
    \/ IsSessionValid
    \/ Reset

Spec == Init /\ [][Next]_vars

\* every request a login attempt issues is answered or fails: the attempt
\* goes on from each of its requests
FairSpec ==
    /\ Spec
    /\ WF_vars(LoginGetForm)
    /\ WF_vars(LoginFollowSso)
    /\ WF_vars(LoginSubmit)
    /\ WF_vars(LoginVerify)

----------------------------------------------------------------------------
(* html_parsing.py applied on its own: extract_sso_link,                   *)
(* extract_cas_form_data and extract_courses are pure functions of the     *)
(* page and the base URL, so they are also run on pages drawn from the     *)
(* sets below, apart from any session                                      *)

\* base URLs as SessionState hands them over: absolute, no trailing slash
ParseBases == { PORTAL,
                <<"https://", "eclass.example.edu">>,
                <<"http://", "localhost:8080", "/", "eclass">> }

Home == Anchor(<<"Home">>, <<"/">>)

\* the anchors of a login page
SsoAnchorLists ==
    { <<>>,
      <<Home>>,
      <<Home, Anchor(<<SSO_MARKER>>, <<"/", "main", "/", "cas.php">>)>>,
      <<Anchor(<<EKPA>>, <<"main", "/", "cas.php">>)>>,
      \* two buttons: the first one counts
      <<Anchor(<<EKPA>>, PORTAL \o <<"/", "secure", "/", "cas.php">>),
        Anchor(<<SSO_MARKER>>, <<"/", "main", "/", "cas.php">>)>>,
      \* a button without href before one with href
      <<Anchor(<<SSO_MARKER>>, NoneStr), Anchor(<<EKPA>>, <<"/", "main", "/", "cas.php">>)>>,
      \* a button with an empty href
      <<Home, Anchor(<<SSO_MARKER>>, <<>>)>> }

\* the forms of a login page
SsoFormLists ==
    { <<>>,
      <<Form("search", NoneStr)>>,
      <<Form("search", <<"/", "search.php">>),
        Form("sso", <<"modules", "/", "auth", "/", "cas.php">>)>>,
      <<Form("sso", <<"http://", "eclass.example.edu", "/", "cas.php">>)>> }

SsoDocs == {Html({}, a, f, NoneStr, NoInput, NoGroups) :
                a \in SsoAnchorLists, f \in SsoFormLists}

\* what each of the four course selectors may match on a portfolio page
CourseGroupOptions ==
    << { <<>>,
         <<Elem(TRUE, Intro, NoneStr, <<"Intro">>),
           Elem(TRUE, Algebra, NoneStr, <<"Algebra">>)>> },
       { <<>>,
         \* the element is the link
         <<Elem(FALSE, Home, <<"courses", "/", "103">>, <<" ", "Logic", " ">>)>>,
         \* no link in or on the element
         <<Elem(FALSE, Home, NoneStr, <<"Logic">>)>> },
       { <<>>,
         \* a link without text
         <<Elem(TRUE, Anchor(<<" ">>, <<"/", "courses", "/", "104">>), NoneStr, <<" ">>)>> },
       { <<>>,
         <<Elem(TRUE, Anchor(<<"Physics">>, <<"httpdocs", "/", "courses", "/", "105">>),
                NoneStr, <<"Physics">>)>>,
         <<Elem(TRUE, Anchor(<<"Optics">>, <<"/", "/", "courses", "/", "106">>),
                NoneStr, <<"Optics">>)>> } >>

\* the anchors of a portfolio page outside the elements the selectors match
CourseAnchorLists ==
    { <<>>,
      <<Home, Anchor(<<"Greek">>, <<"course.php">>)>>,
      <<Anchor(<<" ">>, <<"courses", "/", "1">>), Intro>> }

\* the <a> elements inside the elements the selectors match
AnchorsOf(groups) ==
    LET all == groups[1] \o groups[2] \o groups[3] \o groups[4]
        with_a == SelectSeq(all, LAMBDA e : e.has_a)
    IN  [i \in 1..Len(with_a) |-> with_a[i].a]

CourseDocs ==
    {Html({}, AnchorsOf(<<g1, g2, g3, g4>>) \o a, <<>>, NoneStr, NoInput, <<g1, g2, g3, g4>>) :
        g1 \in CourseGroupOptions[1], g2 \in CourseGroupOptions[2],
        g3 \in CourseGroupOptions[3], g4 \in CourseGroupOptions[4],
        a \in CourseAnchorLists}

\* href and action values
ParseLinks ==
    { <<"/", "main", "/", "cas.php">>,
      <<"main", "/", "cas.php">>,
      <<"/", "/", "courses", "/", "106">>,
      <<"httpdocs", "/", "courses", "/", "105">>,
      <<"http://", "eclass.example.edu", "/", "cas.php">>,
      PORTAL \o <<"/", "courses", "/", "102">> }

\* the function named target is to be applied to the input
Input(target, doc, base, url, link) ==
    [NoCall EXCEPT !.target = target, !.doc = doc, !.base = base, !.url = url,
                   !.link = link]

ParseInputs ==
    {Input("extract_sso_link", d, b, <<>>, <<>>) : d \in SsoDocs, b \in ParseBases}
    \cup {Input("extract_cas_form_data", d, <<>>, u, <<>>) :
              d \in CasPages \cup PostPages, u \in SsoUrls}
    \cup {Input("extract_courses", d, b, <<>>, <<>>) : d \in CourseDocs, b \in ParseBases}
    \cup {Input(t, EmptyHtml, b, <<>>, l) :
              t \in {"absolute_sso_link", "absolute_cas_action", "course_url"},
              b \in ParseBases, l \in ParseLinks}

\* everything but call
session_state == <<env, urls, session, logged_in, username, courses, pc, locals,
                   response, net, ret>>

Pending(target) == call.fn = "none" /\ call.target = target

ExtractSsoLink ==
    /\ Pending("extract_sso_link")
    /\ call' = [call EXCEPT !.fn = "extract_sso_link",
                            !.out_link = extract_sso_link(call.doc, call.base)]
    /\ UNCHANGED session_state

ExtractCasFormData ==
    /\ Pending("extract_cas_form_data")
    /\ call' = [call EXCEPT !.fn = "extract_cas_form_data",
                            !.out_cas = extract_cas_form_data(call.doc, call.url)]
    /\ UNCHANGED session_state

ExtractCourses ==
    /\ Pending("extract_courses")
    /\ call' = [call EXCEPT !.fn = "extract_courses",
                            !.out_courses = extract_courses(call.doc, call.base)]
    /\ UNCHANGED session_state

\* the resolution of extract_sso_link, then applied to its own result
ResolveSsoLink ==
    /\ Pending("absolute_sso_link")
    /\ LET out == absolute_sso_link(call.link, call.base)
       IN  call' = [call EXCEPT !.fn = "absolute_sso_link", !.out_link = out,
                                !.again = absolute_sso_link(out, call.base)]
    /\ UNCHANGED session_state

\* the resolution of extract_cas_form_data, then applied to its own result
ResolveCasAction ==
    /\ Pending("absolute_cas_action")
    /\ LET out == absolute_cas_action(call.link)
       IN  call' = [call EXCEPT !.fn = "absolute_cas_action", !.out_link = out,
                                !.again = absolute_cas_action(out)]
    /\ UNCHANGED session_state

\* the resolution of extract_courses, then applied to its own result
ResolveCourseUrl ==
    /\ Pending("course_url")
    /\ LET out == course_url(call.link, call.base)
       IN  call' = [call EXCEPT !.fn = "course_url", !.out_link = out,
                                !.again = course_url(out, call.base)]
    /\ UNCHANGED session_state

ParseInit ==
    /\ Constructed
    /\ env = [ECLASS_URL |-> NoneStr, ECLASS_USERNAME |-> "alice", ECLASS_PASSWORD |-> "pw"]
    /\ call \in ParseInputs

ParseNext ==
    \/ ExtractSsoLink
    \/ ExtractCasFormData
    \/ ExtractCourses
    \/ ResolveSsoLink
    \/ ResolveCasAction
    \/ ResolveCourseUrl

ParseSpec == ParseInit /\ [][ParseNext]_vars

----------------------------------------------------------------------------
(* test/run_all_tests.py: login, authstatus, get_courses, logout,          *)
(* authstatus in this order, against a server that accepts the credentials *)
(* and keeps the session alive                                             *)

\* the portal serves its login form with the way to the SSO on it
ServesLoginForm(r) ==
    /\ r.kind = "http" /\ r.status = 200
    /\ \/ \E i \in 1..Len(r.text.anchors) :
              In(EKPA, r.text.anchors[i].text) /\ Truthy(r.text.anchors[i].href)
       \/ \E i \in 1..Len(r.text.forms) :
              Truthy(r.text.forms[i].action) /\ In("cas.php", r.text.forms[i].action)

\* the CAS server shows its login form: a token, a form, no complaint
ServesCasForm(r) ==
    /\ r.kind = "http" /\ r.status = 200
    /\ r.url = CAS_LOGIN
    /\ r.text.execution_input \notin {NoInput, None, ""}
    /\ r.text.forms # <<>>
    /\ r.text.msg = NoneStr

\* the CAS server accepts the credentials and sends the user back to the
\* portal that asked, the one at base_url
AcceptsCredentials(r) ==
    /\ r.kind = "http" /\ r.status = 200
    /\ Len(r.url) >= 2 /\ Len(base_url) >= 2 /\ r.url[2] = base_url[2]
    /\ ~InText(POROI, r.text) /\ ~InText(NOT_AUTHENTIC, r.text)

\* the portal serves the portfolio of the user
ServesPortfolio(r) ==
    /\ r.kind = "http" /\ r.status = 200
    /\ r.text.words \cap {MATHIMATA, "My Portfolio"} # {}

\* the portal ends the session
ServesLogout(r) == r.kind = "http" /\ r.status = 200

\* the test calls login first
ScriptLogin ==
    /\ ret.op = "none"
    /\ TruthyAtom(env.ECLASS_USERNAME) /\ TruthyAtom(env.ECLASS_PASSWORD)
    /\ HandleLogin

ScriptGetForm == LoginGetForm /\ ServesLoginForm(response')

ScriptFollowSso == LoginFollowSso /\ ServesCasForm(response')

ScriptSubmit == LoginSubmit /\ AcceptsCredentials(response')

ScriptVerify == LoginVerify /\ ServesPortfolio(response')

\* test_authstatus after test_login
ScriptAuthstatusAfterLogin ==
    /\ ret.op = "attempt_login" /\ pc = "idle" /\ ret.ok
    /\ HandleAuthstatus
    /\ ServesPortfolio(response')

\* test_get_courses
ScriptGetCourses ==
    /\ ret.op = "authstatus" /\ ret.outcome # "not_logged_in"
    /\ HandleGetCourses
    /\ ServesPortfolio(response')

\* test_logout
ScriptLogout ==
    /\ ret.op = "get_courses"
    /\ HandleLogout
    /\ net' # <<>> => ServesLogout(response')

\* test_authstatus after test_logout
ScriptAuthstatusAfterLogout ==
    /\ ret.op = "logout"
    /\ HandleAuthstatus
    /\ net' # <<>> => ServesPortfolio(response')

ScenarioNext ==
    \/ ScriptLogin
    \/ ScriptGetForm
    \/ ScriptFollowSso
    \/ ScriptSubmit
    \/ ScriptVerify
    \/ ScriptAuthstatusAfterLogin
    \/ ScriptGetCourses
    \/ ScriptLogout
    \/ ScriptAuthstatusAfterLogout

ScenarioSpec == Init /\ [][ScenarioNext]_vars

----------------------------------------------------------------------------
(* Properties *)

\* the requests attempt_login has issued so far
AttemptReqs == SelectSeq(net, LAMBDA q : q.by = "attempt_login")

\* attempt_login has returned and nothing has run since
AttemptReturned == pc = "idle" /\ ret.op = "attempt_login"

\* C1: during a login attempt logged_in is false after every step before the
\* last; once attempt_login has returned, logged_in is true only if its
\* fourth request, the GET of the portfolio page, was answered without error
\* by a page on which verify_login_success holds, and every attempt that
\* ended in a failure left logged_in false.
C1_LoggedInOnlyAfterPortfolioVerified ==
    /\ pc # "idle" => ~logged_in
    /\ AttemptReturned =>
        /\ logged_in =>
            /\ ret.ok
            /\ Len(AttemptReqs) = 4
            /\ AttemptReqs[4].method = "GET"
            /\ AttemptReqs[4].url = portfolio_url
            /\ ~AttemptReqs[4].raised
            /\ verify_login_success(response.text)
        /\ ~ret.ok => ~logged_in

C1_Witness == AttemptReturned /\ logged_in /\ Len(AttemptReqs) = 4

\* the last request of attempt_login was the credential POST and it was answered
PostAnswered ==
    /\ AttemptReturned
    /\ AttemptReqs # <<>>
    /\ AttemptReqs[Len(AttemptReqs)].method = "POST"
    /\ response.kind = "http"

\* C2: whenever the answer to the credential POST has a body containing
\* "The credentials you provided cannot be determined to be authentic", the
\* login result is an authentication failure (no network failure, no
\* success) and logged_in is false.
C2_RejectionIsAuthenticationFailure ==
    (PostAnswered /\ InText(NOT_AUTHENTIC, response.text)) =>
        /\ ~ret.ok
        /\ ret.msg[1] \in {"Authentication error: ",
                           "Authentication failed: Invalid credentials"}
        /\ ~logged_in

\* the step is a call of the operation op
Called(op) == ret'.op = op /\ vars' # vars

\* the step leaves the state of the session untouched: the same
\* requests.Session object, the same flag, user and course list
StateUntouched ==
    /\ session'.id = session.id
    /\ logged_in' = logged_in
    /\ username' = username
    /\ courses' = courses

\* C3: a logout called while logged in whose GET of the logout URL fails
\* (transport error or HTTP error status) returns failure with an error
\* detail and leaves logged_in true, username and courses as they were and
\* the cookie context unreplaced.
C3_FailedLogoutKeepsState ==
    [][(Called("logout") /\ logged_in /\ net'[1].raised) =>
        /\ ~ret'.ok
        /\ Truthy(ret'.msg)
        /\ logged_in'
        /\ StateUntouched]_vars

C3_Witness == ret.op = "logout" /\ ~ret.ok /\ logged_in /\ courses # <<>>

\* C4: a logout called while logged in whose GET of the logout URL succeeds
\* returns success with the username set before the call; afterwards
\* logged_in is false, username is unset, courses is empty and the cookie
\* context is a fresh one.
C4_LogoutResetsState ==
    [][(Called("logout") /\ logged_in /\ ~net'[1].raised) =>
        /\ ret'.ok
        /\ ret'.user = username
        /\ TruthyAtom(ret'.user)
        /\ ~logged_in'
        /\ username' = None
        /\ courses' = <<>>
        /\ session'.id # session.id
        /\ session'.cookies = {}]_vars

C4_Witness ==
    ret.op = "logout" /\ ret.ok /\ ret.user = "alice" /\ ~logged_in /\ username = None

\* the step is a logout that succeeds without a username, issues no request
\* and changes no field of the session
LogoutNoOp ==
    /\ ret'.ok
    /\ ret'.user = None
    /\ net' = <<>>
    /\ UNCHANGED <<session, logged_in, username, courses, urls>>

\* C5 as claimed: a logout on a session whose logged_in is false is a
\* successful no-op, and the second of two logout calls in a row always is.
C5_SecondLogoutAlwaysNoOp ==
    [][Called("logout") =>
        /\ ~logged_in => LogoutNoOp
        /\ ret.op = "logout" => LogoutNoOp]_vars

\* C5 as amended: a logout on a session whose logged_in is false is a
\* successful no-op, and so is the second of two logout calls in a row
\* whenever the first one succeeded.
C5_LogoutAfterLogoutSucceededIsNoOp ==
    [][Called("logout") =>
        /\ ~logged_in => LogoutNoOp
        /\ (ret.op = "logout" /\ ret.ok) => LogoutNoOp]_vars

C5_Witness ==
    ret.op = "logout" /\ ret.ok /\ ret.user = None /\ net = <<>> /\ session.id > 0

\* C6: is_session_valid on a session whose logged_in is false, freshly
\* constructed or freshly reset, returns false and issues no request.
C6_NoProbeWhenLoggedOut ==
    [][(Called("is_session_valid") /\ ~logged_in) =>
        /\ ~ret'.valid
        /\ net' = <<>>]_vars

C6_Witness ==
    /\ ret.op = "is_session_valid"
    /\ ~ret.valid
    /\ net = <<>>
    /\ session.id > 0
    /\ session.cookies = {}
    /\ username = None

\* C7: called with logged_in true, is_session_valid issues one GET of the
\* portfolio URL without following redirects and returns true exactly when
\* the answer has status 200 and verify_login_success holds on its body;
\* on every other outcome it returns false and logged_in is false.
C7_ValidIffPortfolioVerified ==
    [][((Called("is_session_valid") \/ Called("authstatus")) /\ logged_in) =>
        /\ Len(net') = 1
        /\ net'[1].method = "GET"
        /\ net'[1].url = portfolio_url
        /\ ~net'[1].allow_redirects
        /\ ret'.valid <=> /\ response'.kind = "http"
                          /\ response'.status = 200
                          /\ verify_login_success(response'.text)
        /\ ~ret'.valid => ~logged_in']_vars

C7_Witness ==
    /\ ret.op = "is_session_valid"
    /\ ~ret.valid
    /\ ~logged_in
    /\ response.kind = "http"
    /\ response.status = 200

\* C8: when is_session_valid returns true, logged_in, username, courses and
\* the URLs are what they were before the call; when it returns false the
\* only field it changes is logged_in.
C8_ValidityCheckFrame ==
    [][Called("is_session_valid") =>
        /\ ret'.valid => logged_in' = logged_in
        /\ username' = username
        /\ courses' = courses
        /\ session'.id = session.id
        /\ UNCHANGED urls]_vars

C8_Witness ==
    /\ ret.op = "is_session_valid"
    /\ ~ret.valid
    /\ net # <<>>
    /\ ~logged_in
    /\ username = "alice"
    /\ courses # <<>>

\* C9 as claimed: get_courses returns "not logged in" when logged_in is
\* false and "session expired" when the validity check fails, in both cases
\* without any network call.
C9_NoNetworkCallOnEitherFailure ==
    [][Called("get_courses") =>
        /\ ~logged_in => (~ret'.ok /\ ret'.msg = NOT_LOGGED_IN /\ net' = <<>>)
        /\ (logged_in /\ ~ret'.valid) =>
               (~ret'.ok /\ ret'.msg = SESSION_EXPIRED /\ net' = <<>>)]_vars

\* C9 as amended: get_courses returns "not logged in" when logged_in is
\* false, without any network call, and "session expired" when the validity
\* check fails, with no network call but the one GET of the validity check.
C9_NoFetchOnEitherFailure ==
    [][Called("get_courses") =>
        /\ ~logged_in => (~ret'.ok /\ ret'.msg = NOT_LOGGED_IN /\ net' = <<>>)
        /\ (logged_in /\ ~ret'.valid) =>
               /\ ~ret'.ok
               /\ ret'.msg = SESSION_EXPIRED
               /\ Len(net') = 1
               /\ net'[1].by = "is_session_valid"]_vars

C9_Witness ==
    ret.op = "get_courses" /\ ret.msg = SESSION_EXPIRED /\ Len(net) = 1

\* C10: when logged_in is true, the validity check passes and the portfolio
\* GET succeeds, get_courses returns success and session courses is exactly
\* the sequence it returns, the courses extracted from the page; an empty
\* sequence too is a success, unlike "not logged in" and "session expired",
\* and replaces the courses stored before.
C10_CoursesOverwritten ==
    [][(Called("get_courses") /\ logged_in /\ ret'.valid
            /\ Len(net') = 2 /\ ~net'[2].raised) =>
        /\ ret'.ok
        /\ ret'.has_courses
        /\ courses' = ret'.courses
        /\ courses' = extract_courses(response'.text, base_url)
        /\ ret'.msg \notin {NOT_LOGGED_IN, SESSION_EXPIRED}]_vars

C10_Witness ==
    /\ ret.op = "get_courses"
    /\ ret.ok
    /\ ret.has_courses
    /\ ret.courses = <<>>
    /\ courses = <<>>
    /\ Len(net) = 2


\* the result of attempt_login is of the network kind
NetworkKind == ret.msg[1] = "Network error during login process: "

\* C11: once attempt_login has returned after at least one request, a
\* transport failure of its last request gives a failure of the network
\* kind, and no semantic failure is reported as one: neither an answer
\* without an error status nor an answer to the credential POST whose body
\* carries a failure marker gives a result of the network kind.
C11_NetworkKindOnlyForTransportFailure ==
    (AttemptReturned /\ AttemptReqs # <<>>) =>
        /\ response.kind = "transport_error" => (~ret.ok /\ NetworkKind)
        /\ (response.kind = "http" /\ response.status < 400) => ~NetworkKind
        /\ (PostAnswered /\ ~post_accepted(response)) => ~NetworkKind


\* the second request of attempt_login, the GET of the SSO link, was answered
\* without an error status by a page whose URL passed the host check, and
\* nothing has run since the checks on that page
CasPageChecked ==
    /\ Len(AttemptReqs) = 2
    /\ pc = "submit" \/ AttemptReturned
    /\ response.kind = "http" /\ response.status < 400
    /\ In(SSO_HOST, response.url)

\* the text of the error container of the page, NoneStr when it has none
ContainerText(doc) == IF doc.msg = NoneStr THEN NoneStr ELSE Strip(doc.msg)

\* the text names an authentication problem, whatever its letter case
NamesAuthProblem(text) ==
    \E t \in Toks(text) : Has(LowerTok(t), "authenticate") \/ Has(LowerTok(t), "credentials")

\* C12: on the CAS page, (1) an error container whose text contains
\* "authenticate" or "credentials" in any letter case ends the login with
\* "Authentication error: <text>", whether or not the token and the form are
\* there; (2) otherwise a missing or empty execution token ends it with the
\* token-missing message; (3) otherwise a page without a form ends it with
\* the form-missing message; in all three no POST is issued, and only when
\* none applies does the login go on to the credential POST.
C12_CasPagePrecedence ==
    CasPageChecked =>
        LET doc == response.text
            text == ContainerText(doc)
        IN  IF Truthy(text) /\ NamesAuthProblem(text)
            THEN /\ AttemptReturned /\ ~ret.ok
                 /\ ret.msg = <<"Authentication error: ">> \o text
            ELSE IF doc.execution_input \in {NoInput, None, ""}
            THEN AttemptReturned /\ ~ret.ok /\ ret.msg = NO_EXECUTION
            ELSE IF doc.forms = <<>>
            THEN AttemptReturned /\ ~ret.ok /\ ret.msg = NO_FORM
            ELSE pc = "submit"

\* a CAS error was reported on a page that had both the token and the form
C12_Witness ==
    /\ CasPageChecked /\ AttemptReturned
    /\ ret.outcome = "cas_error"
    /\ response.text.execution_input = "e1s1"
    /\ response.text.forms # <<>>


\* the host of an absolute URL: what follows the scheme, up to the next "/"
Host(url) == IF Len(url) >= 2 THEN url[2] ELSE ""

\* the second request of attempt_login was answered without an error status
\* and nothing has run since the checks on the answer
SsoAnswered ==
    /\ Len(AttemptReqs) = 2
    /\ pc = "submit" \/ AttemptReturned
    /\ response.kind = "http" /\ response.status < 400

\* C13: when the final URL of the answer to the SSO-link GET is not on the
\* host sso.uoa.gr, the login has ended with "Unexpected redirect to <url>"
\* and no credential POST is under way or issued.
C13_OffSsoHostIsUnexpectedRedirect ==
    (SsoAnswered /\ Host(response.url) # SSO_HOST) =>
        /\ AttemptReturned /\ ~ret.ok
        /\ ret.msg = <<"Unexpected redirect to ">> \o response.url
        /\ \A i \in 1..Len(net) : net[i].method # "POST"


\* the third request of attempt_login, the credential POST, was answered
\* without an error status by a body free of both failure markers, and
\* nothing has run since the checks on the answer
PostAccepted ==
    /\ Len(AttemptReqs) = 3
    /\ pc = "get_portfolio" \/ AttemptReturned
    /\ response.kind = "http" /\ response.status < 400
    /\ post_accepted(response)

\* C14: after an accepted credential POST the login goes on to the GET of the
\* portfolio page exactly when the final URL of the answer contains the host
\* of the configured base_url; otherwise it has ended with "Unexpected
\* redirect after login: <url>" and no portfolio GET is issued.
C14_PortalHostIsHostOfBaseUrl ==
    PostAccepted =>
        IF In(Host(base_url), response.url)
        THEN pc = "get_portfolio"
        ELSE /\ AttemptReturned /\ ~ret.ok
             /\ ret.msg = <<"Unexpected redirect after login: ">> \o response.url


\* the credential POST was answered without an error status by a body that
\* holds a failure marker
PostRejected ==
    /\ PostAnswered
    /\ response.status < 400
    /\ ~post_accepted(response)

\* C15: when the body of the answer to the credential POST holds a failure
\* marker, the login reports "Authentication error: <text>" with the text of
\* the page's error container when that text is not empty, and the generic
\* "Authentication failed: Invalid credentials" when the page has no
\* error-container text.
C15_GenericMessageWithoutContainerText ==
    PostRejected =>
        LET text == ContainerText(response.text)
        IN  /\ ~ret.ok
            /\ IF Truthy(text)
               THEN ret.msg = <<"Authentication error: ">> \o text
               ELSE ret.msg = <<"Authentication failed: Invalid credentials">>


\* the three URLs are the ones __init__ derives from base_url, and base_url
\* does not end with a slash
UrlsDerived ==
    /\ base_url = <<>> \/ base_url[Len(base_url)] # "/"
    /\ login_form_url = base_url \o <<"/", "main", "/", "login_form.php">>
    /\ portfolio_url = base_url \o <<"/", "main", "/", "portfolio.php">>
    /\ logout_url = base_url \o <<"/", "index.php?logout=yes">>

\* C20: in every reachable state login_form_url, portfolio_url and logout_url
\* are the values derived from base_url, base_url has no trailing slash, and
\* no step of any operation (login, logout, get_courses, authstatus, the
\* validity check, reset) changes any of the four.
C20_UrlsDerivedAndFixed ==
    /\ []UrlsDerived
    /\ [][base_url' = base_url /\ login_form_url' = login_form_url
          /\ portfolio_url' = portfolio_url /\ logout_url' = logout_url]_vars

\* a session configured with trailing slashes that has logged in after a reset
C20_Witness ==
    /\ Truthy(env.ECLASS_URL)
    /\ env.ECLASS_URL[Len(env.ECLASS_URL)] = "/"
    /\ session.id >= 1
    /\ logged_in


\* the first selector that matches anything on the page, 0 when none does
FirstMatching(doc) ==
    IF doc.groups[1] # <<>> THEN 1
    ELSE IF doc.groups[2] # <<>> THEN 2
    ELSE IF doc.groups[3] # <<>> THEN 3
    ELSE IF doc.groups[4] # <<>> THEN 4
    ELSE 0

\* the link a matched element stands for: its first <a>, else the element
LinkOf(e) == IF e.has_a THEN e.a ELSE [text |-> e.text, href |-> e.href]

\* the page with nothing left but the matches of selector g
OnlyGroup(doc, g) ==
    [doc EXCEPT !.anchors = <<>>,
                !.groups = [k \in 1..4 |-> IF k = g THEN doc.groups[g] ELSE <<>>]]

\* C16: extract_courses takes the selectors .course-title, .lesson-title,
\* .course-box .title, .course-info h4 in this order; when some selector
\* matches, every course returned comes from an element of the first
\* selector that matches, and the result is the same as on the page stripped
\* of the matches of all other selectors and of all anchors outside them;
\* the anchors are scanned only when no selector matches.
C16_FirstMatchingGroupWins ==
    call.fn = "extract_courses" =>
        LET doc == call.doc
            g == FirstMatching(doc)
            out == call.out_courses
        IN  IF g # 0
            THEN /\ out = extract_courses(OnlyGroup(doc, g), call.base)
                 /\ Len(out) <= Len(doc.groups[g])
                 /\ \A i \in 1..Len(out) :
                        \E j \in 1..Len(doc.groups[g]) :
                            /\ Truthy(LinkOf(doc.groups[g][j]).href)
                            /\ out[i].name = Strip(LinkOf(doc.groups[g][j]).text)
            ELSE /\ \A i \in 1..Len(out) :
                        \E j \in 1..Len(doc.anchors) :
                            out[i].name = Strip(doc.anchors[j].text)
                 /\ \A j \in 1..Len(doc.anchors) :
                        (/\ Truthy(doc.anchors[j].href)
                         /\ In("courses", doc.anchors[j].href)
                            \/ In("course.php", doc.anchors[j].href)
                         /\ Strip(doc.anchors[j].text) # <<>>) =>
                            \E i \in 1..Len(out) :
                                out[i].name = Strip(doc.anchors[j].text)

\* the second selector is the first that matches, the fourth matches too and
\* the page has other course links
C16_Witness ==
    /\ call.fn = "extract_courses"
    /\ FirstMatching(call.doc) = 2
    /\ call.doc.groups[4] # <<>>
    /\ \E j \in 1..Len(call.doc.anchors) : call.doc.anchors[j].text = <<"Greek">>
    /\ call.out_courses # <<>>


\* the anchors whose text contains the SSO marker or the institution code
MarkerAnchors(doc) ==
    {k \in 1..Len(doc.anchors) :
        \E i \in 1..Len(doc.anchors[k].text) :
            Has(doc.anchors[k].text[i], SSO_MARKER) \/ Has(doc.anchors[k].text[i], EKPA)}

\* the forms whose action contains cas.php
CasPhpForms(doc) ==
    {k \in 1..Len(doc.forms) :
        doc.forms[k].action # NoneStr /\ In("cas.php", doc.forms[k].action)}

\* the href of the first marker anchor, NoneStr when there is no such anchor
\* or it has no href
FirstMarkerHref(doc) ==
    IF MarkerAnchors(doc) = {} THEN NoneStr
    ELSE doc.anchors[First(MarkerAnchors(doc))].href

\* the action of the first cas.php form, made absolute
FormLink(doc, base) == absolute_sso_link(doc.forms[First(CasPhpForms(doc))].action, base)

\* C17 as stated: whenever the page has an anchor whose text contains the SSO
\* marker, extract_sso_link returns the link of the first such anchor (no
\* link when that anchor has none) and the cas.php form is not used; without
\* such an anchor it returns the action of the first cas.php form, and None
\* when there is neither.
C17_AnchorWinsWheneverPresent ==
    call.fn = "extract_sso_link" =>
        LET doc == call.doc
            href == FirstMarkerHref(doc)
        IN  IF MarkerAnchors(doc) # {}
            THEN call.out_link = IF Truthy(href) THEN absolute_sso_link(href, call.base)
                                 ELSE NoneStr
            ELSE IF CasPhpForms(doc) # {}
            THEN call.out_link = FormLink(doc, call.base)
            ELSE call.out_link = NoneStr

\* C17, amended: extract_sso_link returns the link of the first anchor whose
\* text contains the SSO marker whenever that anchor has a non-empty href,
\* also when a cas.php form is present; the action of the first cas.php form
\* is used only when there is no such anchor or the first one has no href;
\* None is returned only when both fail.
C17_AnchorWithHrefWins ==
    call.fn = "extract_sso_link" =>
        LET doc == call.doc
            href == FirstMarkerHref(doc)
        IN  IF Truthy(href)
            THEN call.out_link = absolute_sso_link(href, call.base)
            ELSE IF CasPhpForms(doc) # {}
            THEN call.out_link = FormLink(doc, call.base)
            ELSE call.out_link = NoneStr

\* the anchor was taken on a page that also has a cas.php form with another
\* address
C17_Witness ==
    /\ call.fn = "extract_sso_link"
    /\ Truthy(FirstMarkerHref(call.doc))
    /\ CasPhpForms(call.doc) # {}
    /\ call.out_link = absolute_sso_link(FirstMarkerHref(call.doc), call.base)
    /\ call.out_link # FormLink(call.doc, call.base)


\* C18: every course extract_courses returns, from the elements of a
\* selector or from the anchors, has a name that is not empty and a URL that
\* is absolute.
C18_CoursesNamedAndAbsolute ==
    call.fn = "extract_courses" =>
        \A i \in 1..Len(call.out_courses) :
            /\ call.out_courses[i].name # <<>>
            /\ StartsWithScheme(call.out_courses[i].url)


\* one of the three URL resolutions has been applied to a link and then to
\* its own result
Resolved == call.fn \in {"absolute_sso_link", "absolute_cas_action", "course_url"}

\* C19: the URL resolution of extract_sso_link, of extract_cas_form_data and
\* of extract_courses is idempotent: a link that is already an absolute
\* http(s) URL is returned unchanged, and resolving the result of a
\* resolution once more gives the same URL.
C19_ResolutionIdempotent ==
    Resolved =>
        /\ StartsWithScheme(call.link) => call.out_link = call.link
        /\ call.again = call.out_link

\* a relative link was resolved against the base, and resolving the result
\* again left it as it was
C19_Witness ==
    /\ call.fn = "absolute_sso_link"
    /\ ~StartsWithScheme(call.link)
    /\ call.out_link # call.link
    /\ call.again = call.out_link


\* the last operation was one of the four functions that talk to the portal
CoreReturned ==
    /\ pc = "idle"
    /\ ret.op \in {"attempt_login", "logout", "get_courses", "is_session_valid"}

\* C21: attempt_login, perform_logout, get_courses and is_session_valid
\* never let an exception go up to the caller, whatever the answer to their
\* requests (transport error, HTTP error status, a page they cannot use):
\* each ends by returning its result value, and a failure of a request is
\* returned as a failure.
C21_NoExceptionPropagates ==
    CoreReturned =>
        /\ ret.outcome # "raised"
        /\ ret.ok \in BOOLEAN
        /\ (net # <<>> /\ net[Len(net)].raised) => ~ret.ok

\* the portfolio GET of get_courses met a transport error and get_courses
\* returned a failure
C21_Witness ==
    /\ CoreReturned
    /\ ret.op = "get_courses"
    /\ response.kind = "transport_error"
    /\ Len(net) = 2
    /\ ~ret.ok


\* the password of the environment occurs in the text
Echoes(text) ==
    \E i \in 1..Len(text) : Has(text[i], env.ECLASS_PASSWORD)

\* the credentials have been submitted to the CAS server in this attempt
Submitted ==
    \E i \in 1..Len(net) :
        /\ net[i].method = "POST"
        /\ net[i].data.password = env.ECLASS_PASSWORD

ScriptedResultsGood ==
    /\ (ret.op = "attempt_login" /\ pc = "idle") =>
        /\ ret.ok
        /\ ret.text = <<"Login successful! You are now logged in as ",
                        env.ECLASS_USERNAME, ".">>
    /\ ret.op = "get_courses" => ret.ok /\ ret.text[1] # "Error: "
    /\ ret.op = "logout" =>
        /\ ret.ok
        /\ ret.text = <<"Successfully logged out user ", env.ECLASS_USERNAME, ".">>

\* what the two calls of authstatus return
ScriptedStatusGood ==
    /\ (ret.op = "attempt_login" /\ ret'.op = "authstatus") =>
        /\ ret'.text[1] = "Status: Logged in as "
        /\ ret'.text[2] = env.ECLASS_USERNAME
    /\ (ret.op = "logout" /\ ret'.op = "authstatus") =>
        ret'.text = <<"Status: Not logged in">>

\* C23: in the sequence login, authstatus, get_courses, logout, authstatus
\* against a server that accepts the credentials and keeps the session
\* alive, login reports "Login successful", the first authstatus "Status:
\* Logged in as <username>", get_courses a result that is no error, logout
\* "Successfully logged out", and the last authstatus "Status: Not logged in".
C23_ScriptedSessionSucceeds ==
    /\ []ScriptedResultsGood
    /\ [][ScriptedStatusGood]_vars


\* the step is a request of the running login attempt and its checks
LoginStep ==
    /\ ret'.op = "attempt_login"
    /\ Len(net') = Len(net) + 1
    /\ net'[Len(net')].by = "attempt_login"
    /\ SubSeq(net', 1, Len(net)) = net

\* C24: the tool calls are serialized: from the first access of a handler to
\* logged_in, username, courses and the cookie jar until its last, no other
\* handler runs; every handler but login is one uninterrupted step, and while
\* a login is between two of its requests the only step taken is the login's
\* next one.
C24_HandlersSerialized == [][pc # "idle" => LoginStep]_vars

\* a login is waiting for the answer to its credential POST while other tool
\* calls may be pending
C24_Witness == pc = "submit" /\ Len(net) = 2


\* the step is handle_login called on a session marked logged in whose
\* validity check fails, and it goes on to start a login attempt
LoginOnExpiredSession ==
    /\ pc = "idle" /\ logged_in
    /\ pc' = "get_login_form"

\* C25: when handle_login is called on a session that is marked logged in
\* and the validity check fails, the session state has been reset when the
\* new attempt starts: a fresh requests.Session with an empty cookie jar, no
\* username, no courses, logged_in false.
C25_ExpiredSessionResetBeforeLogin ==
    [][LoginOnExpiredSession =>
          /\ session'.id = session.id + 1
          /\ session'.cookies = {}
          /\ username' = None
          /\ courses' = <<>>
          /\ ~logged_in']_vars


\* the step is handle_login answering that the session is logged in already
AnswersAlreadyLoggedIn ==
    /\ pc = "idle"
    /\ ret'.op = "handle_login" /\ ret'.outcome = "already_logged_in"
    /\ vars' # vars

\* C26: handle_login on a session that is logged in and passes the validity
\* check returns "Already logged in as <username>" and does not start the
\* login protocol: pc stays idle, the only request is the validity check's
\* GET, no POST is issued, and logged_in, username and courses are unchanged;
\* and on such a session handle_login gives no other answer.
C26_AlreadyLoggedInIsNoLogin ==
    [][/\ AnswersAlreadyLoggedIn =>
            /\ logged_in /\ logged_in'
            /\ ret'.text = <<"Already logged in as ", username>>
            /\ username' = username
            /\ courses' = courses
            /\ session'.id = session.id
            /\ pc' = "idle"
            /\ Len(net') = 1 /\ net'[1].method = "GET" /\ net'[1].by = "is_session_valid"
       /\ (pc = "idle" /\ logged_in /\ ret'.op \in {"handle_login", "attempt_login"}
           /\ vars' # vars /\ portfolio_accessed(response') /\ response'.kind = "http")
           => AnswersAlreadyLoggedIn]_vars

\* handle_login has answered "Already logged in" on a session with courses
C26_Witness ==
    /\ ret.op = "handle_login" /\ ret.outcome = "already_logged_in"
    /\ logged_in
    /\ courses # <<>>


\* the methods of the requests of a login attempt, in their order
AttemptMethods == <<"GET", "GET", "POST", "GET">>

\* the requests of the attempt are the first ones of the fixed sequence, and
\* every one before the last was answered without error
AttemptInOrder ==
    /\ Len(AttemptReqs) <= 4
    /\ \A i \in 1..Len(AttemptReqs) :
        /\ AttemptReqs[i].method = AttemptMethods[i]
        /\ i = 1 => AttemptReqs[i].url = login_form_url
        /\ i = 3 => AttemptReqs[i].data.password = env.ECLASS_PASSWORD
        /\ i = 4 => AttemptReqs[i].url = portfolio_url
        /\ i < Len(AttemptReqs) =>
            AttemptReqs[i].status >= 200 /\ AttemptReqs[i].status < 400

\* a request is issued only after the check on the previous answer passed
AttemptChecksPassed ==
    /\ pc = "get_login_form" => AttemptReqs = <<>>
    /\ pc = "follow_sso" =>
        /\ Len(AttemptReqs) = 1
        /\ Truthy(sso_link)
        /\ AttemptReqs[1].status < 400
    /\ pc = "submit" =>
        /\ Len(AttemptReqs) = 2
        /\ AttemptReqs[2].url = sso_link
        /\ In(SSO_HOST, response.url)
        /\ execution \notin {None, NoInput, ""}
        /\ Truthy(action)
    /\ pc = "get_portfolio" =>
        /\ Len(AttemptReqs) = 3
        /\ AttemptReqs[3].url = action
        /\ ~InText(POROI, response.text) /\ ~InText(NOT_AUTHENTIC, response.text)
        /\ In(PORTAL_HOST, response.url)

\* the attempt has ended in success or in a failure with its message
AttemptOutcome ==
    AttemptReturned =>
        /\ ret.ok \in BOOLEAN
        /\ ret.ok <=> ret.outcome = "success"
        /\ ret.ok => Len(AttemptReqs) = 4 /\ AttemptReqs[4].status = 200
        /\ ~ret.ok => Truthy(ret.msg)

ValidityCheckPassed ==
    /\ Len(net') = 1
    /\ net'[1].by = "is_session_valid"
    /\ response'.status = 200
    /\ verify_login_success(response'.text)

\* the three status texts of authstatus
StatusNotLoggedIn == ret'.text = <<"Status: Not logged in">>
StatusLoggedIn ==
    /\ Len(ret'.text) = 5
    /\ SubSeq(ret'.text, 1, 2) = <<"Status: Logged in as ", username>>
StatusExpired == ret'.text = <<"Status: Session expired. Please log in again.">>

\* C28: authstatus answers "Not logged in", without a request, when
\* logged_in is false; "Logged in as <username>" when logged_in is true and
\* the validity check passes; "Session expired" when logged_in is true and
\* the check fails, and then logged_in is false afterwards.  The three texts
\* exclude one another.
C28_AuthstatusThreeOutcomes ==
    [][Called("authstatus") =>
        /\ ~logged_in =>
            /\ StatusNotLoggedIn
            /\ net' = <<>>
            /\ StateUntouched
        /\ logged_in /\ ValidityCheckPassed =>
            /\ StatusLoggedIn
            /\ logged_in' /\ username' = username
        /\ logged_in /\ ~ValidityCheckPassed =>
            /\ StatusExpired
            /\ ~logged_in'
        /\ Cardinality({k \in 1..3 :
                           <<StatusNotLoggedIn, StatusLoggedIn, StatusExpired>>[k]}) = 1
    ]_vars

\* authstatus has found the session of a logged-in user expired
C28_Witness ==
    /\ ret.op = "authstatus"
    /\ ret.outcome = "session_expired"
    /\ ~logged_in
    /\ username # None
    /\ Len(net) = 1


\* this step of get_courses passed both checks and its portfolio GET failed
PortfolioFetchFailed ==
    /\ Called("get_courses")
    /\ logged_in
    /\ Len(net') = 2
    /\ net'[1].by = "is_session_valid" /\ ~net'[1].raised
    /\ net'[2].by = "get_courses" /\ net'[2].method = "GET"
    /\ net'[2].url = portfolio_url
    /\ net'[2].raised

\* C29: when get_courses has passed the logged-in check and the validity
\* check and its GET of the portfolio page fails, it returns a failure with
\* a message and no course list, the answer is an error text, and courses,
\* username and logged_in are as before, logged_in being true.
C29_FailedFetchKeepsState ==
    [][PortfolioFetchFailed =>
        /\ ~ret'.ok
        /\ ~ret'.has_courses
        /\ Truthy(ret'.msg)
        /\ ret'.text = <<"Error: ">> \o ret'.msg
        /\ courses' = courses
        /\ username' = username
        /\ logged_in' /\ logged_in
        /\ session'.id = session.id
    ]_vars

\* a failed fetch after an earlier one had stored courses
C29_Witness ==
    /\ ret.op = "get_courses"
    /\ ret.outcome \in {"network_error", "error"}
    /\ Len(net) = 2
    /\ net[2].raised
    /\ courses # <<>>
    /\ logged_in


\* the operations that return, or answer by, the value of is_session_valid
\* and do nothing to logged_in after it
ReturnsValidity == {"is_session_valid", "authstatus", "get_courses"}

\* C30: when is_session_valid returns, the value it returns is the value of
\* logged_in after the call: True is returned only when logged_in was true
\* before and is true after, and after False logged_in is false.  The same
\* holds where authstatus and get_courses call it.
C30_ReturnValueIsLoggedIn ==
    [][ret'.op \in ReturnsValidity /\ vars' # vars /\ ret'.outcome # "raised" =>
        /\ ret'.valid = logged_in'
        /\ ret'.valid => logged_in
        /\ ret'.op = "is_session_valid" => ret'.ok = ret'.valid
        /\ ~ret'.valid => ~logged_in'
    ]_vars

\* a direct call has found the session of a logged-in user invalid
C30_Witness ==
    /\ ret.op = "is_session_valid"
    /\ ret.outcome = "invalid"
    /\ Len(net) = 1
    /\ ~ret.valid
    /\ ~logged_in
    /\ username # None


\* the step is the last one of a login attempt that succeeds
LoginSucceeds ==
    /\ pc = "get_portfolio"
    /\ ret'.op = "attempt_login"
    /\ ret'.outcome = "success"

\* C31: whenever logged_in is true, username is a non-empty string, the one
\* of the environment; it was sent in the credential POST of the login that
\* succeeded last, and no step since has changed it: a step that leaves
\* logged_in true and is not a successful login starts with logged_in true
\* and keeps username.
C31_LoggedInHasUserOfLastLogin ==
    /\ [](logged_in =>
            /\ TruthyAtom(username)
            /\ username = env.ECLASS_USERNAME)
    /\ [][/\ LoginSucceeds =>
                /\ logged_in'
                /\ Len(AttemptReqs') = 4
                /\ username' = AttemptReqs'[3].data.username
          /\ logged_in' /\ ~LoginSucceeds =>
                /\ logged_in
                /\ username' = username
         ]_vars

\* a logged-in session that has been used since its login
C31_Witness ==
    /\ logged_in
    /\ username = env.ECLASS_USERNAME
    /\ ret.op = "get_courses"
    /\ ret.ok
    /\ session.id > 0


\* C32: whenever logged_in is false, username is unset and courses is empty:
\* nothing of the identity or of the course list is left after a logout, a
\* reset or an invalidation found by is_session_valid.
C32_LoggedOutHasNoIdentity ==
    ~logged_in => username = None /\ courses = <<>>


\* C33: a login attempt that ends in a failure leaves logged_in, username
\* and courses as they were when attempt_login was called: every step of an
\* attempt but the one that succeeds keeps the three fields and the
\* requests.Session object, whose cookie jar alone may have changed; and an
\* attempt that has returned a failure has logged_in false, as it was at the
\* call.
C33_FailedAttemptKeepsState ==
    /\ [][pc # "idle" /\ ~LoginSucceeds =>
            /\ logged_in' = logged_in
            /\ username' = username
            /\ courses' = courses
            /\ session'.id = session.id
         ]_vars
    /\ [](pc # "idle" \/ (AttemptReturned /\ ~ret.ok) => ~logged_in)

\* an attempt has failed at its POST, on a session that still holds the user
\* and the courses of an expired login, and with new cookies in the jar
C33_Witness ==
    /\ AttemptReturned
    /\ ~ret.ok
    /\ Len(AttemptReqs) = 3
    /\ username # None
    /\ courses # <<>>
    /\ session.cookies # {}


\* the request carries the username or the password of the environment
CarriesCredentials(q) ==
    \/ q.data.username # None
    \/ q.data.password # None
    \/ In(env.ECLASS_USERNAME, q.url)
    \/ In(env.ECLASS_PASSWORD, q.url)

\* the credentials go out in the credential POST of an attempt and in no
\* other request
OnlyThePostCarriesCredentials ==
    \A i \in 1..Len(net) :
        CarriesCredentials(net[i]) =>
            /\ net[i].by = "attempt_login"
            /\ net[i].method = "POST"
            /\ \A j \in 1..Len(net) : CarriesCredentials(net[j]) => j = i

\* C34: the username and the password are sent in the one credential POST of
\* a login attempt and in no other request, and that POST goes to a URL whose
\* host is sso.uoa.gr, whatever the CAS page that passed the host check holds.
C34_CredentialsOnlyToCasHost ==
    /\ OnlyThePostCarriesCredentials
    /\ \A i \in 1..Len(net) :
        CarriesCredentials(net[i]) => Host(net[i].url) = SSO_HOST


\* the step is an authstatus or a get_courses call
StatusOrCourses == Called("authstatus") \/ Called("get_courses")

\* the step reports "Session expired"
ReportsExpired ==
    \/ Called("authstatus") /\ StatusExpired
    \/ Called("get_courses") /\ ret'.msg = SESSION_EXPIRED

\* the step reports "Not logged in"
ReportsNotLoggedIn ==
    \/ Called("authstatus") /\ StatusNotLoggedIn
    \/ /\ Called("get_courses")
       /\ ret'.msg = NOT_LOGGED_IN
       /\ ret'.text = <<"Error: ">> \o NOT_LOGGED_IN

\* C35: "Session expired" is reported at most once per login.  A report of it
\* is made with logged_in true and leaves logged_in false; logged_in becomes
\* true again only by the step that ends a successful login; and every
\* authstatus or get_courses call made while logged_in is false reports "Not
\* logged in" and issues no request.
C35_ExpiryReportedOnce ==
    [][/\ ReportsExpired => logged_in /\ ~logged_in'
       /\ ~logged_in /\ logged_in' => LoginSucceeds
       /\ StatusOrCourses /\ ~logged_in =>
            /\ ReportsNotLoggedIn
            /\ ~ReportsExpired
            /\ net' = <<>>
            /\ ~logged_in'
      ]_vars

\* get_courses called after an expiry, before any new login: the user of the
\* expired login is still stored
C35_Witness ==
    /\ ret.op = "get_courses"
    /\ ret.outcome = "not_logged_in"
    /\ net = <<>>
    /\ ~logged_in
    /\ username # None

=============================================================================
